---- MODULE Spec2Model ----
(***************************************************************************)
(* Model of the JOS kernel monitor, kern/monitor.c: the command loop       *)
(* monitor()/runcmd() and the commands mon_help, mon_kerninfo,             *)
(* mon_backtrace and mon_showmap.                                          *)
(*                                                                         *)
(* A 32-bit machine word (uint32_t, uintptr_t, size_t, pte_t) is the       *)
(* record [pg, off]: its upper 20 bits (the page number) and its lower 12  *)
(* bits (the page offset).  All word arithmetic below is exact modulo 2^32 *)
(* in that representation.                                                 *)
(***************************************************************************)
EXTENDS Integers, Sequences, FiniteSets, TLC

VARIABLES
    pc,          \* position of the monitor: "readline", "bt_loop", "sm_loop", "returned", "exited"
    cmd,         \* the tokenized command line: [name, argc, a1, a2] (a1, a2: what strtol yields for argv[1], argv[2])
    ret,         \* status returned by the last command handler
    out,         \* lines written with cprintf by the current command
    kern_pgdir,  \* the kernel page directory and its page tables
    walks,       \* calls made to pgdir_walk by the current command: [va, create]
    vstart,      \* mon_showmap local
    vend,        \* mon_showmap local
    mem,         \* the kernel stack during a backtrace: word address -> word
    reg_ebp,     \* the %ebp register when mon_backtrace is entered
    ebp,         \* mon_backtrace local
    prev,        \* mon_backtrace local
    resolves,    \* addresses passed to debuginfo_eip by the current command
    reads        \* stack slots read by the current command

vars == <<pc, cmd, ret, out, kern_pgdir, walks, vstart, vend, mem, reg_ebp, ebp, prev, resolves, reads>>

-----------------------------------------------------------------------------
(* Bounds of the model *)

\* largest page count given on the command line, and largest number of rows a modelled run prints
MaxPages == 3
\* longest frame-pointer chain
MaxFrames == 3

-----------------------------------------------------------------------------
(* 32-bit words *)

PGSIZE == 4096
NPTENTRIES == 1024
PTE_P == 1
PTE_W == 2
PTE_U == 4

\* number of pages in the 32-bit address space
NPAGES == 2^20

W(pg, off) == [pg |-> pg, off |-> off]
ZERO == W(0, 0)
NULL == [null |-> TRUE]

\* the word with the bit pattern of the C long x (the casts (uintptr_t)x, (size_t)x)
ToWord(x) == W((x \div PGSIZE) % NPAGES, x % PGSIZE)

\* w + n modulo 2^32, for an integer n of small magnitude
WAdd(w, n) == W((w.pg + ((w.off + n) \div PGSIZE)) % NPAGES, (w.off + n) % PGSIZE)

\* a + b modulo 2^32
WPlus(a, b) == W((a.pg + b.pg + ((a.off + b.off) \div PGSIZE)) % NPAGES, (a.off + b.off) % PGSIZE)

\* a - b modulo 2^32
WMinus(a, b) == W((a.pg - b.pg + ((a.off - b.off) \div PGSIZE)) % NPAGES, (a.off - b.off) % PGSIZE)

\* n * PGSIZE modulo 2^32, n a word
WTimesPGSIZE(n) == W(((n.pg % (NPAGES \div PGSIZE)) * PGSIZE + n.off) % NPAGES, 0)

\* unsigned a < b
WLess(a, b) == a.pg < b.pg \/ (a.pg = b.pg /\ a.off < b.off)

\* x & mask # 0 for a single-bit mask of the low 12 bits
BitSet(w, mask) == (w.off \div mask) % 2 = 1

ROUNDDOWN(a, n) == WAdd(a, -(a.off % n))
PTE_ADDR(pte) == W(pte.pg, 0)
PDX(va) == va.pg \div NPTENTRIES

-----------------------------------------------------------------------------
(* The page table: kern_pgdir = [present, pte].  present is the set of page *)
(* directory indices whose entry has PTE_P; pte maps a page-aligned virtual *)
(* address to the value of its page-table entry.                            *)

PteVal(pgdir, slot) == IF slot \in DOMAIN pgdir.pte THEN pgdir.pte[slot] ELSE ZERO

\* pgdir_walk(pgdir, va, create): the resulting page directory and a pointer
\* to the entry of va (the page address names the slot), or NULL
pgdir_walk(pgdir, va, create) ==
    IF PDX(va) \in pgdir.present
    THEN [pgdir |-> pgdir, pte |-> ROUNDDOWN(va, PGSIZE)]
    ELSE IF create
         THEN [pgdir |-> [pgdir EXCEPT !.present = @ \cup {PDX(va)}],
               pte |-> ROUNDDOWN(va, PGSIZE)]
         ELSE [pgdir |-> pgdir, pte |-> NULL]

EntryVals ==
    { ZERO, W(\h00100, 7), W(\h00100, 3), W(\h00100, 5), W(\h00100, \h061), W(\h00100, 6) }

TablesWith(pr) ==
    { [present |-> pr,
       pte |-> (W(\h00400, 0) :> e1) @@ (W(\h00401, 0) :> e2) @@ (W(\hFFFFF, 0) :> e3)] :
        e1 \in IF 1 \in pr THEN EntryVals ELSE {ZERO},
        e2 \in IF 1 \in pr THEN {ZERO, W(\h00234, 3)} ELSE {ZERO},
        e3 \in IF 1023 \in pr THEN {ZERO, W(\h00345, 3)} ELSE {ZERO} }

PageTables == UNION { TablesWith(pr) : pr \in SUBSET {1, 1023} }

-----------------------------------------------------------------------------
(* The locals of a handler live only while it runs, and the stack holds the *)
(* frames of a backtrace only during that backtrace: entering a command     *)
(* leaves the other handlers' state at its initial value.                   *)

NoRange == vstart' = ZERO /\ vend' = ZERO
NoFrames == mem' = <<>> /\ reg_ebp' = ZERO /\ ebp' = ZERO /\ prev' = ZERO

-----------------------------------------------------------------------------
(* mon_showmap *)

StartArgs == { 0, \h800, \h00400000, \h00400abc, -4096, -2048, -8192, -(MaxPages * 4096) }
LenArgs == (0 .. MaxPages) \cup { -1, -(NPAGES - 2), NPAGES + 1 }

\* faulty variant: the test for a missing address argument is off by one
ShowmapNeedsHelp_off(argc) == argc < 1
ShowmapNeedsHelp(argc) == argc < 2
ShowmapLen(argc, a2) == IF argc >= 3 THEN ToWord(a2) ELSE ToWord(1)
ShowmapEnd(vs, vlen) == WPlus(vs, WTimesPGSIZE(vlen))
\* faulty variant: the start address is not rounded down
ShowmapFirst_raw(vs) == vs
ShowmapFirst(vs) == ROUNDDOWN(vs, PGSIZE)
ShowmapLast(ve) == ROUNDDOWN(ve, PGSIZE)
\* faulty variant: the loop runs until the addresses are equal
ShowmapCond_neq(vs, ve) == vs # ve
ShowmapCond(vs, ve) == WLess(vs, ve)
\* faulty variant: the lookup is asked to create missing page tables
ShowmapCreate_alloc(va) == TRUE
ShowmapCreate(va) == FALSE
\* faulty variant: the user and writable bits are exchanged
ShowmapRow_swapped(va, pgdir, pte) ==
    IF pte # NULL /\ BitSet(PteVal(pgdir, pte), PTE_P)
    THEN [kind |-> "map", va |-> va, pa |-> PTE_ADDR(PteVal(pgdir, pte)),
          u |-> IF BitSet(PteVal(pgdir, pte), PTE_W) THEN 1 ELSE 0,
          w |-> IF BitSet(PteVal(pgdir, pte), PTE_U) THEN 1 ELSE 0]
    ELSE [kind |-> "nomap", va |-> va]
ShowmapRow(va, pgdir, pte) ==
    IF pte # NULL /\ BitSet(PteVal(pgdir, pte), PTE_P)
    THEN [kind |-> "map", va |-> va, pa |-> PTE_ADDR(PteVal(pgdir, pte)),
          u |-> IF BitSet(PteVal(pgdir, pte), PTE_U) THEN 1 ELSE 0,
          w |-> IF BitSet(PteVal(pgdir, pte), PTE_W) THEN 1 ELSE 0]
    ELSE [kind |-> "nomap", va |-> va]
ShowmapAdvance(vs) == WAdd(vs, PGSIZE)
ShowmapStatus(path) == 0

\* number of rows a run from vs to ve prints
RowsBetween(vs, ve) == IF WLess(vs, ve) THEN ve.pg - vs.pg ELSE 0

RunShowmap ==
    /\ pc = "readline"
    /\ \E argc \in 1..3, a1 \in StartArgs, a2 \in LenArgs :
        /\ argc < 2 => a1 = 0
        /\ argc < 3 => a2 = 0
        /\ cmd' = [name |-> "showmap", argc |-> argc, a1 |-> a1, a2 |-> a2]
        /\ walks' = <<>>
        /\ resolves' = <<>>
        /\ reads' = {}
        /\ IF ShowmapNeedsHelp(argc)
           THEN /\ out' = << [kind |-> "usage"] >>
                /\ ret' = ShowmapStatus("help")
                /\ pc' = "returned"
                /\ UNCHANGED <<vstart, vend>>
           ELSE LET vs == ToWord(a1)
                    ve == ShowmapEnd(vs, ShowmapLen(argc, a2))
                IN  /\ RowsBetween(ShowmapFirst(vs), ShowmapLast(ve)) <= MaxPages
                    /\ vstart' = ShowmapFirst(vs)
                    /\ vend' = ShowmapLast(ve)
                    /\ out' = <<>>
                    /\ pc' = "sm_loop"
                    /\ UNCHANGED ret
    /\ NoFrames
    /\ UNCHANGED kern_pgdir

ShowmapStep ==
    /\ pc = "sm_loop"
    /\ IF ShowmapCond(vstart, vend)
       THEN LET r == pgdir_walk(kern_pgdir, vstart, ShowmapCreate(vstart))
            IN  /\ walks' = Append(walks, [va |-> vstart, create |-> ShowmapCreate(vstart)])
                /\ kern_pgdir' = r.pgdir
                /\ out' = Append(out, ShowmapRow(vstart, r.pgdir, r.pte))
                /\ vstart' = ShowmapAdvance(vstart)
                /\ UNCHANGED <<pc, ret>>
       ELSE /\ ret' = ShowmapStatus("loop")
            /\ pc' = "returned"
            /\ UNCHANGED <<walks, kern_pgdir, out, vstart>>
    /\ UNCHANGED <<cmd, vend, mem, reg_ebp, ebp, prev, resolves, reads>>

-----------------------------------------------------------------------------
(* debuginfo_eip: the debug-info resolver *)

Syms ==
    { [name |-> "entry", addr |-> W(\hF0100, \h000), size |-> \h40, file |-> "kern/entry.S", line |-> 83],
      [name |-> "A",     addr |-> W(\hF0100, \h040), size |-> \h40, file |-> "kern/a.c",     line |-> 12],
      [name |-> "B",     addr |-> W(\hF0100, \h080), size |-> \h40, file |-> "kern/b.c",     line |-> 34] }

InSym(addr, s) == addr.pg = s.addr.pg /\ s.addr.off <= addr.off /\ addr.off < s.addr.off + s.size

\* debuginfo_eip(addr, &info): status 0 and the location, or a negative status
debuginfo_eip(addr) ==
    IF \E s \in Syms : InSym(addr, s)
    THEN LET s == CHOOSE t \in Syms : InSym(addr, t)
         IN  [status |-> 0, eip_file |-> s.file, eip_line |-> s.line,
              eip_fn_name |-> s.name, eip_fn_namelen |-> Len(s.name), eip_fn_addr |-> s.addr]
    ELSE [status |-> -1, eip_file |-> "<unknown>", eip_line |-> 0,
          eip_fn_name |-> "<unknown>", eip_fn_namelen |-> 9, eip_fn_addr |-> addr]

-----------------------------------------------------------------------------
(* mon_backtrace *)

\* return addresses found on the stack: A+10, B+20, entry+62, and one outside every function
RetAddrs == { W(\hF0100, \h04a), W(\hF0100, \h094), W(\hF0100, \h03e), W(\h00800, \h020) }

\* the k-th frame of a stack (k = 1 is the frame %ebp points to): callers lie at higher addresses
FrameAddr(k) == W(\hF010F, \hF00 + 32 * k)

\* a stack of Len(rets) frames whose outermost frame saved a zero frame pointer
StackOf(rets) ==
    LET n == Len(rets)
        slots == { <<k, i>> : k \in 1..n, i \in 0..6 }
        addrs == { WAdd(FrameAddr(s[1]), 4 * s[2]) : s \in slots }
        at(a) == CHOOSE s \in slots : WAdd(FrameAddr(s[1]), 4 * s[2]) = a
        val(s) == IF s[2] = 0 THEN (IF s[1] < n THEN FrameAddr(s[1] + 1) ELSE ZERO)
                  ELSE IF s[2] = 1 THEN rets[s[1]]
                  ELSE W(0, 16 * s[1] + s[2])
    IN  [a \in addrs |-> val(at(a))]

read_ebp == reg_ebp
\* prev[i]
Load(p, i) == mem[WAdd(p, 4 * i)]

\* faulty variant: the walk stops at the frame whose saved frame pointer is zero
FrameLive_saved(e) == e # ZERO /\ mem[e] # ZERO
FrameLive(e) == e # ZERO
\* faulty variant: the resolver's status is not tested
ResolveOk_ignored(info) == TRUE
ResolveOk(info) == info.status = 0
BacktraceEntry(e, p, info) ==
    [kind |-> "frame", ebp |-> e, eip |-> Load(p, 1),
     args |-> <<Load(p, 2), Load(p, 3), Load(p, 4), Load(p, 5), Load(p, 6)>>,
     file |-> info.eip_file, line |-> info.eip_line,
     fn |-> SubSeq(info.eip_fn_name, 1, info.eip_fn_namelen),
     offset |-> WMinus(Load(p, 1), info.eip_fn_addr)]
NextFrame(p) == Load(p, 0)
\* faulty variant: the resolver's failure is passed on as the command's status
BacktraceStatus_fail(resolved) == IF resolved THEN 0 ELSE -1
BacktraceStatus(resolved) == 0

RunBacktrace ==
    /\ pc = "readline"
    /\ \E n \in 0..MaxFrames : \E rets \in [1..n -> RetAddrs] :
        /\ mem' = StackOf(rets)
        /\ reg_ebp' = IF n = 0 THEN ZERO ELSE FrameAddr(1)
    /\ cmd' = [name |-> "backtrace", argc |-> 1, a1 |-> 0, a2 |-> 0]
    /\ ebp' = read_ebp'
    /\ prev' = read_ebp'
    /\ out' = << [kind |-> "header"] >>
    /\ walks' = <<>>
    /\ resolves' = <<>>
    /\ reads' = {}
    /\ pc' = "bt_loop"
    /\ NoRange
    /\ UNCHANGED <<ret, kern_pgdir>>

BacktraceStep ==
    /\ pc = "bt_loop"
    /\ IF FrameLive(ebp)
       THEN LET info == debuginfo_eip(Load(prev, 1))
            IN  /\ resolves' = Append(resolves, Load(prev, 1))
                /\ IF ResolveOk(info)
                   THEN /\ out' = Append(out, BacktraceEntry(ebp, prev, info))
                        /\ reads' = reads \cup { WAdd(prev, 4 * i) : i \in 0..6 }
                        /\ ebp' = NextFrame(prev)
                        /\ prev' = NextFrame(prev)
                        /\ UNCHANGED <<pc, ret>>
                   ELSE /\ reads' = reads \cup { WAdd(prev, 4) }
                        /\ ret' = BacktraceStatus(FALSE)
                        /\ pc' = "returned"
                        /\ UNCHANGED <<out, ebp, prev>>
       ELSE /\ ret' = BacktraceStatus(TRUE)
            /\ pc' = "returned"
            /\ UNCHANGED <<out, ebp, prev, resolves, reads>>
    /\ UNCHANGED <<cmd, kern_pgdir, walks, vstart, vend, mem, reg_ebp>>

-----------------------------------------------------------------------------
(* mon_help, mon_kerninfo, and the paths of runcmd that call no command *)

MAXARGS == 16
commands == << "help", "kerninfo", "backtrace", "showmap" >>

\* the linear scan of runcmd: the index of the command named name, or 0
Lookup(name) == IF \E i \in 1..Len(commands) : commands[i] = name
                THEN CHOOSE i \in 1..Len(commands) : commands[i] = name
                ELSE 0

RunHelp ==
    /\ pc = "readline"
    /\ cmd' = [name |-> "help", argc |-> 1, a1 |-> 0, a2 |-> 0]
    /\ out' = [i \in 1..Len(commands) |-> [kind |-> "help", name |-> commands[i]]]
    /\ ret' = 0
    /\ pc' = "returned"
    /\ walks' = <<>>
    /\ resolves' = <<>>
    /\ reads' = {}
    /\ NoRange
    /\ NoFrames
    /\ UNCHANGED kern_pgdir

RunKerninfo ==
    /\ pc = "readline"
    /\ cmd' = [name |-> "kerninfo", argc |-> 1, a1 |-> 0, a2 |-> 0]
    /\ out' = [i \in 1..7 |-> [kind |-> "kerninfo", line |-> i]]
    /\ ret' = 0
    /\ pc' = "returned"
    /\ walks' = <<>>
    /\ resolves' = <<>>
    /\ reads' = {}
    /\ NoRange
    /\ NoFrames
    /\ UNCHANGED kern_pgdir

\* a line of ntokens tokens that reaches no command: too many tokens, none, or an unknown name
RunNoCommand ==
    /\ pc = "readline"
    /\ \E ntokens \in {0, 1, MAXARGS}, name \in {"help", "exit"} :
        /\ ntokens >= MAXARGS \/ ntokens = 0 \/ Lookup(name) = 0
        /\ ntokens = 0 => name = "help"
        /\ cmd' = [name |-> IF ntokens = 0 THEN "" ELSE name,
                   argc |-> IF ntokens >= MAXARGS THEN MAXARGS - 1 ELSE ntokens,
                   a1 |-> 0, a2 |-> 0]
        /\ out' = IF ntokens >= MAXARGS THEN << [kind |-> "toomany"] >>
                  ELSE IF ntokens = 0 THEN <<>>
                  ELSE << [kind |-> "unknown", name |-> name] >>
    /\ ret' = 0
    /\ pc' = "returned"
    /\ walks' = <<>>
    /\ resolves' = <<>>
    /\ reads' = {}
    /\ NoRange
    /\ NoFrames
    /\ UNCHANGED kern_pgdir

-----------------------------------------------------------------------------
(* monitor *)

\* the test of runcmd's status in monitor(), and the next readline: the finished
\* command's output and bookkeeping are over
MonitorLoop ==
    /\ pc = "returned"
    /\ pc' = IF ret < 0 THEN "exited" ELSE "readline"
    /\ cmd' = [name |-> "", argc |-> 0, a1 |-> 0, a2 |-> 0]
    /\ out' = <<>>
    /\ walks' = <<>>
    /\ resolves' = <<>>
    /\ reads' = {}
    /\ NoRange
    /\ NoFrames
    /\ UNCHANGED <<ret, kern_pgdir>>

Init ==
    /\ pc = "readline"
    /\ cmd = [name |-> "", argc |-> 0, a1 |-> 0, a2 |-> 0]
    /\ ret = 0
    /\ out = <<>>
    /\ kern_pgdir \in PageTables
    /\ walks = <<>>
    /\ vstart = ZERO
    /\ vend = ZERO
    /\ mem = <<>>
    /\ reg_ebp = ZERO
    /\ ebp = ZERO
    /\ prev = ZERO
    /\ resolves = <<>>
    /\ reads = {}

Next ==
    \/ RunHelp
    \/ RunKerninfo
    \/ RunBacktrace
    \/ BacktraceStep
    \/ RunShowmap
    \/ ShowmapStep
    \/ RunNoCommand
    \/ MonitorLoop

Spec == Init /\ [][Next]_vars

\* the monitor runs a command to completion: a handler that can take a step
\* takes it; readline may wait for input forever
FairSpec == Spec /\ WF_vars(ShowmapStep) /\ WF_vars(BacktraceStep) /\ WF_vars(MonitorLoop)

-----------------------------------------------------------------------------
(* Properties *)

Returned(name) == pc = "returned" /\ cmd.name = name

\* the report rows of mon_showmap and the entries of mon_backtrace among the lines written
Rows == SelectSeq(out, LAMBDA r : r.kind \in {"map", "nomap"})
Frames == SelectSeq(out, LAMBDA r : r.kind = "frame")

\* the frame chain on the stack, followed from the frame pointer e through the saved frame pointers
RECURSIVE ChainFrom(_, _)
ChainFrom(e, fuel) ==
    IF e = ZERO \/ fuel = 0 THEN <<>> ELSE <<e>> \o ChainFrom(mem[e], fuel - 1)
Chain == ChainFrom(reg_ebp, MaxFrames + 1)
RetOf(f) == mem[WAdd(f, 4)]
Resolves(f) == debuginfo_eip(RetOf(f)).status = 0
\* the first frame of the chain whose return address does not resolve, or 0
FirstFailure ==
    IF \E k \in 1..Len(Chain) : ~Resolves(Chain[k])
    THEN CHOOSE k \in 1..Len(Chain) : ~Resolves(Chain[k]) /\ \A j \in 1..(k - 1) : Resolves(Chain[j])
    ELSE 0

\* C1: for a page-aligned start and a positive page count whose range lies in
\* the 32-bit address space (the last page included), showmap prints exactly
\* pageCount rows, the k-th for start + k*PGSIZE, in ascending order.
C1_RowPerPage ==
    (/\ Returned("showmap") /\ cmd.argc = 3
     /\ cmd.a1 % PGSIZE = 0 /\ cmd.a2 > 0
     /\ ToWord(cmd.a1).pg + cmd.a2 <= NPAGES)
    => /\ Len(Rows) = cmd.a2
       /\ \A k \in 1..cmd.a2 : Rows[k].va = W(ToWord(cmd.a1).pg + k - 1, 0)

\* C2: on a chain of n frames ending in a zero saved frame pointer, all return
\* addresses resolving, backtrace emits exactly n entries, nearest caller first,
\* each entry's frame pointer being the saved frame pointer of the entry before;
\* with a zero initial frame pointer it emits nothing, resolves nothing and
\* reads no frame slot.
C2_UnwindWholeChain ==
    (Returned("backtrace") /\ FirstFailure = 0)
    => /\ Len(Frames) = Len(Chain)
       /\ \A k \in 1..Len(Frames) :
            Frames[k].ebp = IF k = 1 THEN reg_ebp ELSE mem[Frames[k - 1].ebp]
       /\ reg_ebp = ZERO => (Frames = <<>> /\ resolves = <<>> /\ reads = {})

C2_Witness ==
    /\ Returned("backtrace") /\ FirstFailure = 0
    /\ Len(Chain) = MaxFrames /\ Len(Frames) = MaxFrames

\* C3: when the j-th frame's return address is the first that fails to resolve,
\* backtrace emits entries for the j-1 frames before it and nothing else, visits
\* no later frame, and returns normally; the resolver is called on a frame's
\* return address before that frame's entry is emitted.
C3_StopAtFirstFailure ==
    /\ cmd.name = "backtrace" =>
        /\ Len(Frames) <= Len(resolves)
        /\ \A k \in 1..Len(Frames) : resolves[k] = Frames[k].eip
    /\ (Returned("backtrace") /\ FirstFailure > 0) =>
        /\ Len(Frames) = FirstFailure - 1
        /\ \A k \in 1..Len(Frames) : Frames[k].ebp = Chain[k] /\ Frames[k].eip = RetOf(Chain[k])
        /\ Len(resolves) = FirstFailure
        /\ resolves[FirstFailure] = RetOf(Chain[FirstFailure])
        /\ \A k \in (FirstFailure + 1)..Len(Chain), i \in 0..6 : WAdd(Chain[k], 4 * i) \notin reads
        /\ ret = 0

C3_Witness ==
    /\ Returned("backtrace") /\ FirstFailure = 2
    /\ Len(Chain) = 3 /\ Len(Frames) = 1

\* C4: a row is the absent-mapping marker exactly when the lookup returns no
\* entry or an entry without the present bit; otherwise its physical address is
\* the entry with the low 12 bits cleared and its user and writable bits are
\* the entry's PTE_U and PTE_W bits.
C4_RowMatchesEntry ==
    cmd.name = "showmap" =>
        \A k \in 1..Len(Rows) :
            LET row == Rows[k]
                tbl == PDX(row.va) \in kern_pgdir.present
                e == kern_pgdir.pte[row.va]
            IN  /\ row.kind = "nomap" <=>
                     (~tbl \/ row.va \notin DOMAIN kern_pgdir.pte \/ e.off % 2 = 0)
                /\ row.kind = "map" =>
                     /\ row.pa = [pg |-> e.pg, off |-> 0]
                     /\ row.u = (e.off \div 4) % 2
                     /\ row.w = (e.off \div 2) % 2

\* the scenario of the specification: two pages from 0x00400000, the first mapped
\* present, writable and user at 0x00100000, the second unmapped
C4_Witness ==
    /\ Returned("showmap") /\ cmd.a1 = \h00400000 /\ cmd.a2 = 2
    /\ Rows = << [kind |-> "map", va |-> W(\h00400, 0), pa |-> W(\h00100, 0), u |-> 1, w |-> 1],
                 [kind |-> "nomap", va |-> W(\h00401, 0)] >>

\* C5: showmap never changes the page directory or a page-table entry, and
\* every lookup it makes asks for no creation.
C5_NoMutation ==
    [][/\ kern_pgdir' = kern_pgdir
       /\ \A i \in 1..Len(walks') : walks'[i].create = FALSE]_vars

\* a run that looked up an address whose page table is missing
C5_Witness ==
    /\ Returned("showmap")
    /\ \E i \in 1..Len(walks) : PDX(walks[i].va) \notin kern_pgdir.present

\* C6: without an address argument showmap writes the usage message only,
\* makes no lookup and returns 0.
C6_UsageOnly ==
    (Returned("showmap") /\ cmd.argc < 2)
    => /\ out = << [kind |-> "usage"] >>
       /\ walks = <<>>
       /\ ret = 0

C6_Witness == Returned("showmap") /\ cmd.argc = 1 /\ Len(out) = 1

\* C7: backtrace and showmap return status 0 on every path, and the monitor
\* loop is never left.
C7_NeverTerminates ==
    /\ pc # "exited"
    /\ (pc = "returned" /\ cmd.name \in {"backtrace", "showmap"}) => ret = 0

\* a backtrace that ended on a resolver failure
C7_Witness == Returned("backtrace") /\ FirstFailure > 0 /\ ret = 0

\* C8: every address showmap looks up and prints is page-aligned, the first is
\* the start rounded down, and each next one is exactly one page above the one
\* before.
C8_PageSteps ==
    cmd.name = "showmap" =>
        /\ Len(Rows) = Len(walks)
        /\ \A i \in 1..Len(walks) :
            /\ walks[i].va.off = 0
            /\ Rows[i].va = walks[i].va
            /\ i = 1 => walks[i].va.pg = ToWord(cmd.a1).pg
            /\ i > 1 => walks[i].va.pg = walks[i - 1].va.pg + 1

C8_Witness ==
    /\ Returned("showmap") /\ cmd.a1 % PGSIZE # 0
    /\ Len(walks) >= 2

\* C9: with the page count omitted showmap prints exactly one row, for the
\* start address rounded down to its page.
C9_DefaultOnePage ==
    (Returned("showmap") /\ cmd.argc = 2)
    => /\ Len(Rows) = 1
       /\ Rows[1].va = W(ToWord(cmd.a1).pg, 0)

\* C10: showmap terminates for every start and count: both bounds are
\* page-aligned, an iteration moves vstart up by one page without passing vend
\* or wrapping, a loop that ran ends with vstart = vend, and the command returns.
C10_Terminates ==
    /\ [](pc = "sm_loop" => (vstart.off = 0 /\ vend.off = 0))
    /\ [][(pc = "sm_loop" /\ pc' = "sm_loop")
            => (vend' = vend /\ vstart'.pg = vstart.pg + 1 /\ vstart'.pg <= vend.pg)]_vars
    /\ []((Returned("showmap") /\ Len(Rows) > 0) => vstart = vend)
    /\ (pc = "sm_loop") ~> (pc = "returned")

\* a run with a negative or overflowing count that printed rows
C10_Witness ==
    /\ Returned("showmap") /\ cmd.argc = 3
    /\ (cmd.a2 < 0 \/ cmd.a2 > NPAGES)
    /\ Len(Rows) > 0

====
